---------------------------- MODULE Spec2Model ----------------------------
(***************************************************************************)
(* A state-machine model of the advantage actor-critic notebook a2c.ipynb: *)
(* generate_trajectory, calculate_discounted_returns, standardise_returns, *)
(* optimise_value_function, optimise_policy, train_agent and evaluate.     *)
(*                                                                         *)
(* Numbers.  Rewards and scores are integers.  Every other float is a      *)
(* record [kind, n, d]: kind "num" is the exact rational n/d (d > 0, in    *)
(* lowest terms), kind "nan" is IEEE NaN and kind "inf" an infinity of     *)
(* sign n.  The inputs used here are small integers and dyadic rationals,  *)
(* which float32/float64 represent exactly.                                *)
(*                                                                         *)
(* The networks and optimizers are opaque: a parameter set is a version    *)
(* counter (one per optimizer step) and a flag saying whether it holds     *)
(* NaN; a network output remembers the version that produced it.           *)
(*                                                                         *)
(* The environment is a stub simulator: within an episode it follows a     *)
(* mode (a reward pattern, the step at which it reports terminated, the    *)
(* step from which it reports truncated), and it may change mode once, at  *)
(* a reset.                                                                *)
(***************************************************************************)
EXTENDS Integers, Sequences, FiniteSets, TLC

VARIABLES
    \* ---- configuration (arguments of train_agent / evaluate / the function)
    num_episodes, max_steps, gamma, log_interval, early_stopping_threshold,
    \* ---- control
    pc,               \* position in the running function
    trainState,       \* RUNNING, EARLY_STOPPED, EXHAUSTED, RAISED
    raisedBy,         \* "none", "env", "policy"
    i_episode,        \* loop variable of the episode loop (0 before the loop)
    step,             \* loop variable of the step loop (-1: not yet bound)
    \* ---- environment stub
    envMode, envSwitched, envT, envDone, envReturn, envResets,
    \* ---- networks and optimizers
    policyParams, valueParams, policyGrad, valueGrad, optLog,
    valueCalls,       \* forward passes of the value network so far
    \* ---- one episode's trajectory and what is derived from it
    log_probs, rewards, state_values, returns, standardised_returns, advantages,
    \* ---- train_agent
    recent_scores, scores, printed,
    \* ---- evaluate
    episode_reward, all_rewards, all_steps

vars == << num_episodes, max_steps, gamma, log_interval, early_stopping_threshold,
           pc, trainState, raisedBy, i_episode, step,
           envMode, envSwitched, envT, envDone, envReturn, envResets,
           policyParams, valueParams, policyGrad, valueGrad, optLog, valueCalls,
           log_probs, rewards, state_values, returns, standardised_returns,
           advantages, recent_scores, scores, printed,
           episode_reward, all_rewards, all_steps >>

configVars == << num_episodes, max_steps, gamma, log_interval, early_stopping_threshold >>
envVars    == << envMode, envSwitched, envT, envDone, envReturn, envResets >>
netVars    == << policyParams, valueParams, policyGrad, valueGrad, optLog,
                valueCalls >>
trajVars   == << log_probs, rewards, state_values >>
derivedVars == << returns, standardised_returns, advantages >>
trainVars  == << recent_scores, scores, printed >>
evalVars   == << episode_reward, all_rewards, all_steps >>

----------------------------------------------------------------------------
(* Bounds of the model                                                     *)

\* longest reward sequence handed to calculate_discounted_returns on its own
RetMaxLen == 5
\* largest max_steps handed to calculate_discounted_returns on its own
RetMaxSteps == 5
\* largest max_steps of a short training run
ShortMaxSteps == 3
\* largest num_episodes of a short training run
ShortEpisodes == 3
\* num_episodes of a long training run (longer than the score window)
LongEpisodes == 150
\* num_episodes and max_steps of a long evaluation run
EvalEpisodes == 10
EvalMaxSteps == 50

\* maxlen of the rolling score window, deque(maxlen=100)
WindowCap == 100

----------------------------------------------------------------------------
(* Floats                                                                  *)

\* Numbers are exact rationals in lowest terms; the operators cancel common
\* factors before they multiply, which keeps the intermediate integers small.

Abs(x) == IF x < 0 THEN -x ELSE x

Min(a, b) == IF a <= b THEN a ELSE b

RECURSIVE GCD(_, _)
GCD(a, b) == IF b = 0 THEN a ELSE GCD(b, a % b)

NaN == [kind |-> "nan", n |-> 0, d |-> 1]

Inf(sign) == [kind |-> "inf", n |-> sign, d |-> 1]

\* the rational n/d, d # 0, in lowest terms with a positive denominator
Rat(n, d) ==
    LET g == GCD(Abs(n), Abs(d))
        s == IF d < 0 THEN -1 ELSE 1
    IN  [kind |-> "num", n |-> (s * n) \div g, d |-> (s * d) \div g]

FInt(k) == [kind |-> "num", n |-> k, d |-> 1]

Sign(a) == IF a.n > 0 THEN 1 ELSE IF a.n < 0 THEN -1 ELSE 0

IsNum(a) == a.kind = "num"

FAdd(a, b) ==
    IF a.kind = "nan" \/ b.kind = "nan" THEN NaN
    ELSE IF a.kind = "inf" /\ b.kind = "inf"
         THEN (IF a.n = b.n THEN a ELSE NaN)
    ELSE IF a.kind = "inf" THEN a
    ELSE IF b.kind = "inf" THEN b
    ELSE LET g == GCD(a.d, b.d)
         IN  Rat(a.n * (b.d \div g) + b.n * (a.d \div g), a.d * (b.d \div g))

FNeg(a) == IF a.kind = "nan" THEN NaN ELSE [a EXCEPT !.n = -a.n]

FSub(a, b) == FAdd(a, FNeg(b))

FMul(a, b) ==
    IF a.kind = "nan" \/ b.kind = "nan" THEN NaN
    ELSE IF a.kind = "inf" \/ b.kind = "inf"
         THEN (IF Sign(a) * Sign(b) = 0 THEN NaN ELSE Inf(Sign(a) * Sign(b)))
    ELSE LET g1 == GCD(Abs(a.n), b.d)
             g2 == GCD(Abs(b.n), a.d)
         IN  Rat((a.n \div g1) * (b.n \div g2), (a.d \div g2) * (b.d \div g1))

\* IEEE division: 0/0 and inf/inf are NaN, x/0 is an infinity
FDiv(a, b) ==
    IF a.kind = "nan" \/ b.kind = "nan" THEN NaN
    ELSE IF a.kind = "inf"
         THEN (IF b.kind = "inf" THEN NaN
               ELSE Inf(a.n * (IF b.n < 0 THEN -1 ELSE 1)))
    ELSE IF b.kind = "inf" THEN FInt(0)
    ELSE IF b.n = 0 THEN (IF a.n = 0 THEN NaN ELSE Inf(Sign(a)))
    ELSE LET g1 == GCD(Abs(a.n), Abs(b.n))
             g2 == GCD(a.d, b.d)
         IN  Rat((a.n \div g1) * (b.d \div g2), (a.d \div g2) * (b.n \div g1))

\* a >= k for a float a and an integer k; a comparison with NaN is false
FGeqInt(a, k) ==
    CASE a.kind = "nan" -> FALSE
      [] a.kind = "inf" -> a.n > 0
      [] OTHER          -> a.n >= k * a.d

\* sum, max and min of s[lo..hi], by halving (integer addition is exact in
\* any order)
RECURSIVE SumRange(_, _, _)
SumRange(s, lo, hi) ==
    IF lo > hi THEN 0
    ELSE IF lo = hi THEN s[lo]
    ELSE LET mid == (lo + hi) \div 2
         IN  SumRange(s, lo, mid) + SumRange(s, mid + 1, hi)

SumInts(s) == SumRange(s, 1, Len(s))

RECURSIVE MaxRange(_, _, _)
MaxRange(s, lo, hi) ==
    IF lo = hi THEN s[lo]
    ELSE LET mid == (lo + hi) \div 2
             a == MaxRange(s, lo, mid)
             b == MaxRange(s, mid + 1, hi)
         IN  IF a >= b THEN a ELSE b

MaxInts(s) == MaxRange(s, 1, Len(s))

RECURSIVE MinRange(_, _, _)
MinRange(s, lo, hi) ==
    IF lo = hi THEN s[lo]
    ELSE LET mid == (lo + hi) \div 2
             a == MinRange(s, lo, mid)
             b == MinRange(s, mid + 1, hi)
         IN  IF a <= b THEN a ELSE b

MinInts(s) == MinRange(s, 1, Len(s))

RECURSIVE FSum(_)
FSum(s) == IF s = << >> THEN FInt(0) ELSE FAdd(s[1], FSum(Tail(s)))

\* np.mean of a non-empty sequence of integers
Mean(s) == FDiv(FInt(SumInts(s)), FInt(Len(s)))

----------------------------------------------------------------------------
(* collections.deque with a maxlen                                         *)

\* append where appendleft is meant
DequeAppendLeftAtRight(d, x, maxlen) ==
    LET e == Append(d, x)
    IN  IF Len(e) > maxlen THEN SubSeq(e, 2, Len(e)) ELSE e

\* appendleft on a deque made without maxlen
DequeAppendLeftUnbounded(d, x, maxlen) == << x >> \o d

\* deque.appendleft: a full deque drops its rightmost item
DequeAppendLeft(d, x, maxlen) ==
    LET e == << x >> \o d
    IN  IF Len(e) > maxlen THEN SubSeq(e, 1, maxlen) ELSE e

\* a full window that keeps its oldest items and drops the new one
DequeAppendDropsNewest(d, x, maxlen) ==
    LET e == Append(d, x)
    IN  IF Len(e) > maxlen THEN SubSeq(e, 1, maxlen) ELSE e

\* deque.append: a full deque drops its leftmost item
DequeAppend(d, x, maxlen) ==
    LET e == Append(d, x)
    IN  IF Len(e) > maxlen THEN SubSeq(e, Len(e) - maxlen + 1, Len(e)) ELSE e

----------------------------------------------------------------------------
(* calculate_discounted_returns                                            *)

\* the return that follows is added without the discount
UndiscountedStep(r, g, disc_return) == FAdd(FInt(r), disc_return)

\* "rewards[step] + gamma * disc_return"
DiscountedStep(r, g, disc_return) == FAdd(FInt(r), FMul(g, disc_return))

\* the loop "for step in range(n_steps)[::-1]", at 1-based index k
RECURSIVE ReturnsLoop(_, _, _, _, _)
ReturnsLoop(rs, maxlen, g, k, acc) ==
    IF k = 0 THEN acc
    ELSE LET disc_return == IF Len(acc) > 0 THEN acc[1] ELSE FInt(0)
         IN  ReturnsLoop(rs, maxlen, g, k - 1,
                 DequeAppendLeft(acc, DiscountedStep(rs[k], g, disc_return), maxlen))

calculate_discounted_returns(rs, maxlen, g) ==
    ReturnsLoop(rs, maxlen, g, Len(rs), << >>)

----------------------------------------------------------------------------
(* standardise_returns                                                     *)

\* nothing is added to the standard deviation
NoEps == FInt(0)

\* eps = np.finfo(np.float32).eps.item(), 2^-23
Eps == Rat(1, 8388608)

\* One output element stands for dev / (sqrt(var) + eps): dev is the entry
\* minus the mean and var the variance under torch's std().  The square root
\* of a rational is not computed; what the element is (NaN, zero, its sign)
\* follows from dev, var and eps.
StdElem(dev, var) == [dev |-> dev, var |-> var, eps |-> Eps]

\* a number over a divisor that is not zero
StdIsFinite(e) ==
    /\ IsNum(e.dev)
    /\ IsNum(e.var)
    /\ (e.var.n # 0 \/ e.eps.n # 0)

\* NaN (or, over a zero divisor, Inf): what makes the losses NaN
StdIsNaN(e) == ~StdIsFinite(e)

StdIsZero(e) == StdIsFinite(e) /\ e.dev.n = 0

\* torch.Tensor.std() divides the squared deviations by N - 1 (Bessel's
\* correction); for N = 1 that is 0/0
TorchVar(xs, mean) ==
    FDiv(FSum([i \in 1..Len(xs) |-> FMul(FSub(xs[i], mean), FSub(xs[i], mean))]),
         FInt(Len(xs) - 1))

standardise_returns(xs) ==
    LET mean == FDiv(FSum(xs), FInt(Len(xs)))
        var  == TorchVar(xs, mean)
    IN  [i \in 1..Len(xs) |-> StdElem(FSub(xs[i], mean), var)]

----------------------------------------------------------------------------
(* The environment stub                                                    *)

\* rew: the rewards of the steps, cycled; len: the step that reports
\* terminated (0: never); trunc: the step from which truncated is reported
\* (0: never)
ModeL == [rew |-> << 1, 2 >>, len |-> 2, trunc |-> 0]
ModeH == [rew |-> << 3, 2 >>, len |-> 2, trunc |-> 0]
ModeO == [rew |-> << 4 >>, len |-> 1, trunc |-> 0]
ModeN == [rew |-> << 2 >>, len |-> 0, trunc |-> 1]
ModeE == [rew |-> << 2 >>, len |-> 50, trunc |-> 0]

TrainModes == { ModeL, ModeH, ModeO, ModeN }

EvalModes == { ModeL, ModeO, ModeN, ModeE }

\* what env.step returns at the env's step t (1-based) in mode m
EnvReward(m, t) == m.rew[((t - 1) % Len(m.rew)) + 1]

EnvTerminated(m, t) == m.len > 0 /\ t >= m.len

EnvTruncated(m, t) == m.trunc > 0 /\ t >= m.trunc

\* env.reset(): a new episode, possibly in another mode (once)
EnvReset(modes) ==
    /\ envMode' \in (IF envSwitched \/ envResets = 0 THEN { envMode } ELSE modes)
    /\ envSwitched' = (envSwitched \/ envMode' # envMode)
    /\ envT' = 0
    /\ envDone' = FALSE
    /\ envReturn' = 0
    /\ envResets' = envResets + 1

\* env.step(action)
EnvStep ==
    /\ envT' = envT + 1
    /\ envDone' = (envDone \/ EnvTerminated(envMode, envT + 1))
    /\ envReturn' = envReturn + EnvReward(envMode, envT + 1)
    /\ UNCHANGED << envMode, envSwitched, envResets >>

----------------------------------------------------------------------------
(* The networks                                                            *)

FreshParams == [ver |-> 0, nan |-> FALSE]

\* PolicyNetwork.act: Categorical(probabilities) validates its argument and
\* raises ValueError when the probabilities are NaN
ActRaises(params) == params.nan

\* the log-probability act returns at 0-based step t
LogProb(params, t) == [ver |-> params.ver, t |-> t, nan |-> params.nan]

\* value_function(state) at 0-based step t
StateValue(params, t) == [ver |-> params.ver, t |-> t, nan |-> params.nan]

\* optimizer.step() on gradients of a loss that is NaN or not
OptimizerStep(params, lossIsNaN) ==
    [ver |-> params.ver + 1, nan |-> (params.nan \/ lossIsNaN)]

\* F.mse_loss(state_values, returns) is NaN when an operand holds NaN
ValueLossIsNaN(svs, rets) ==
    \/ \E i \in 1..Len(rets) : StdIsNaN(rets[i])
    \/ \E i \in 1..Len(svs) : svs[i].nan

\* the value estimates computed anew, with the value network as it is when
\* the policy is optimised
AdvantagesRecomputed(rets, svs) ==
    [i \in 1..Min(Len(rets), Len(svs)) |->
        [ret |-> rets[i], value |-> StateValue(valueParams, svs[i].t)]]

\* advantages = returns - state_values.detach(), elementwise
Advantages(rets, svs) ==
    [i \in 1..Min(Len(rets), Len(svs)) |-> [ret |-> rets[i], value |-> svs[i]]]

AdvantageIsNaN(a) == StdIsNaN(a.ret) \/ a.value.nan

\* sum of -log_prob * advantage over zip(log_probs, advantages)
PolicyLossIsNaN(lps, advs) ==
    \E i \in 1..Min(Len(lps), Len(advs)) : lps[i].nan \/ AdvantageIsNaN(advs[i])

----------------------------------------------------------------------------
(* The optimizers                                                          *)

Modules == { "policy", "value" }

\* one Adam over the parameters of both networks
BothModules == { "policy", "value" }

\* optim.Adam(LL_policy.parameters(), ...): the parameters the policy
\* optimizer clears and steps
PolicyOptimizerParams == { "policy" }

\* optim.Adam(LL_value.parameters(), ...)
ValueOptimizerParams == { "value" }

\* the networks whose parameters the graph of value_loss reaches:
\* state_values are outputs of value_function, returns a plain tensor
ValueLossGraph == { "value" }

\* the graph of policy_loss: log_probs are outputs of the policy, the
\* advantages are built from state_values.detach() and hold no graph
PolicyLossGraph == { "policy" }

\* backward before the gradients are cleared
EventsBackwardFirst == << "backward", "zero_grad", "step" >>

\* the three calls that end optimise_value_function, in program order
ValueUpdateEvents == << "zero_grad", "backward", "step" >>

\* the three calls that end optimise_policy, in program order
PolicyUpdateEvents == << "zero_grad", "backward", "step" >>

\* parameters and gradient buffers of both networks, by module
Nets ==
    [params |-> [policy |-> policyParams, value |-> valueParams],
     grad   |-> [policy |-> policyGrad, value |-> valueGrad]]

\* optimizer.zero_grad(): the buffers of the optimizer's parameters are reset
ZeroGrad(nets, owned) ==
    [nets EXCEPT !.grad =
        [m \in Modules |-> IF m \in owned THEN "none" ELSE nets.grad[m]]]

\* loss.backward(): gradients are accumulated into the buffers of every
\* parameter the graph of the loss reaches
Backward(nets, graph, lossIsNaN) ==
    [nets EXCEPT !.grad =
        [m \in Modules |->
            IF m \in graph
            THEN IF lossIsNaN \/ nets.grad[m] = "nan" THEN "nan" ELSE "finite"
            ELSE nets.grad[m]]]

\* optimizer.step(): the optimizer's parameters that hold a gradient move
Step(nets, owned) ==
    [nets EXCEPT !.params =
        [m \in Modules |->
            IF m \in owned /\ nets.grad[m] # "none"
            THEN OptimizerStep(nets.params[m], nets.grad[m] = "nan")
            ELSE nets.params[m]]]

ApplyEvent(nets, ev, owned, graph, lossIsNaN) ==
    CASE ev = "zero_grad" -> ZeroGrad(nets, owned)
      [] ev = "backward"  -> Backward(nets, graph, lossIsNaN)
      [] ev = "step"      -> Step(nets, owned)

RECURSIVE ApplyEvents(_, _, _, _, _, _)
ApplyEvents(nets, evs, k, owned, graph, lossIsNaN) ==
    IF k > Len(evs) THEN nets
    ELSE ApplyEvents(ApplyEvent(nets, evs[k], owned, graph, lossIsNaN),
                     evs, k + 1, owned, graph, lossIsNaN)

\* the entries an optimizer's calls leave in the log of optimizer calls
OptEvents(opt, evs) == [k \in 1..Len(evs) |-> [opt |-> opt, op |-> evs[k]]]

\* a rollout step of generate_trajectory runs the policy (act) and the
\* value network (value_function(state)); no optimizer is involved
RolloutForward ==
    /\ valueCalls' = valueCalls + 1
    /\ UNCHANGED << policyParams, valueParams, policyGrad, valueGrad, optLog >>

\* the rollout step of generate_trajectory in place of evaluate's
EvalForwardWithCritic ==
    /\ valueCalls' = valueCalls + 1
    /\ UNCHANGED << policyParams, valueParams, policyGrad, valueGrad, optLog >>

\* a step of evaluate runs policy.act only
EvalForward == UNCHANGED netVars

----------------------------------------------------------------------------
(* Exceptions                                                              *)

\* an exception caught and the episode started again
RaiseRetried(who) ==
    /\ trainState' = trainState
    /\ raisedBy' = who
    /\ pc' = IF pc \in { "g_reset", "g_step" } THEN "g_reset" ELSE "e_reset"

\* Neither train_agent nor evaluate nor generate_trajectory has a try block:
\* an exception raised by env.reset, env.step or policy.act ends the running
\* function and reaches its caller
RaiseFrom(who) ==
    /\ trainState' = "RAISED"
    /\ raisedBy' = who
    /\ pc' = "done"

----------------------------------------------------------------------------
(* generate_trajectory                                                     *)

\* a loop that also ends on the truncated flag
LoopBreaksOnTruncated(done, truncated) == done \/ truncated

\* the step loop runs on after a step reported terminated
LoopNeverBreaks(done, truncated) == FALSE

\* "if done: break" reads the terminated flag only
LoopBreaks(done, truncated) == done

\* lines 141-144: the empty lists and env.reset()
GenReset ==
    /\ pc = "g_reset"
    /\ EnvReset(TrainModes)
    /\ log_probs' = << >>
    /\ rewards' = << >>
    /\ state_values' = << >>
    /\ step' = -1
    /\ pc' = IF max_steps > 0 THEN "g_step" ELSE "t_score"
    /\ UNCHANGED << configVars, trainState, raisedBy, i_episode, netVars,
                    derivedVars, trainVars, evalVars >>

\* one iteration of "for step in range(max_steps)" in which policy.act raises
GenStepActRaises ==
    /\ pc = "g_step"
    /\ step + 1 < max_steps
    /\ ActRaises(policyParams)
    /\ step' = step + 1
    /\ RaiseFrom("policy")
    /\ UNCHANGED << configVars, i_episode, envVars, netVars, trajVars,
                    derivedVars, trainVars, evalVars >>

\* one iteration of "for step in range(max_steps)", lines 147-158
GenStep ==
    /\ pc = "g_step"
    /\ step + 1 < max_steps
    /\ ~ActRaises(policyParams)
    /\ step' = step + 1
    /\ EnvStep
    /\ rewards' = Append(rewards, EnvReward(envMode, envT + 1))
    /\ log_probs' = Append(log_probs, LogProb(policyParams, step + 1))
    /\ state_values' = Append(state_values, StateValue(valueParams, step + 1))
    /\ RolloutForward
    /\ pc' = IF \/ LoopBreaks(EnvTerminated(envMode, envT + 1),
                              EnvTruncated(envMode, envT + 1))
                \/ step + 2 >= max_steps
             THEN "t_score" ELSE "g_step"
    /\ UNCHANGED << configVars, trainState, raisedBy, i_episode,
                    derivedVars, trainVars, evalVars >>

\* env.reset() raises (line 144)
GenResetEnvRaises ==
    /\ pc = "g_reset"
    /\ log_probs' = << >>
    /\ rewards' = << >>
    /\ state_values' = << >>
    /\ RaiseFrom("env")
    /\ UNCHANGED << configVars, i_episode, step, envVars, netVars, derivedVars,
                    trainVars, evalVars >>

\* env.step(action) raises (line 150), after policy.act and value_function
GenStepEnvRaises ==
    /\ pc = "g_step"
    /\ step + 1 < max_steps
    /\ ~ActRaises(policyParams)
    /\ step' = step + 1
    /\ RaiseFrom("env")
    /\ UNCHANGED << configVars, i_episode, envVars, netVars, trajVars,
                    derivedVars, trainVars, evalVars >>

----------------------------------------------------------------------------
(* optimise_value_function and optimise_policy                             *)

optimise_value_function ==
    /\ pc = "t_critic"
    /\ LET after == ApplyEvents(Nets, ValueUpdateEvents, 1, ValueOptimizerParams,
                                ValueLossGraph,
                                ValueLossIsNaN(state_values, standardised_returns))
       IN  /\ policyParams' = after.params.policy
           /\ valueParams' = after.params.value
           /\ policyGrad' = after.grad.policy
           /\ valueGrad' = after.grad.value
    /\ optLog' = optLog \o OptEvents("value", ValueUpdateEvents)
    /\ pc' = "t_actor"
    /\ UNCHANGED << configVars, trainState, raisedBy, i_episode, step, envVars,
                    valueCalls, trajVars, derivedVars, trainVars, evalVars >>

optimise_policy ==
    /\ pc = "t_actor"
    /\ advantages' = Advantages(standardised_returns, state_values)
    /\ LET after == ApplyEvents(Nets, PolicyUpdateEvents, 1, PolicyOptimizerParams,
                                PolicyLossGraph,
                                PolicyLossIsNaN(log_probs, advantages'))
       IN  /\ policyParams' = after.params.policy
           /\ valueParams' = after.params.value
           /\ policyGrad' = after.grad.policy
           /\ valueGrad' = after.grad.value
    /\ optLog' = optLog \o OptEvents("policy", PolicyUpdateEvents)
    /\ pc' = "t_stop"
    /\ UNCHANGED << configVars, trainState, raisedBy, i_episode, step, envVars,
                    valueCalls, trajVars, returns, standardised_returns,
                    trainVars, evalVars >>

----------------------------------------------------------------------------
(* train_agent                                                             *)

NoThreshold == [set |-> FALSE, value |-> 0]

Threshold(v) == [set |-> TRUE, value |-> v]

\* the statistics of one printed line
Stats(kind, episode, window) ==
    [kind |-> kind, episode |-> episode, avg |-> Mean(window),
     best |-> MaxInts(window), worst |-> MinInts(window)]

\* "avg_score > early_stopping_threshold" (integer scores: the mean times
\* the window length is an integer)
ReachesStrictly(avg, threshold) ==
    avg.kind # "nan" /\ (avg.kind = "inf" => avg.n > 0)
        /\ (avg.kind = "num" => avg.n > threshold * avg.d)

\* "avg_score >= early_stopping_threshold"
Reaches(avg, threshold) == FGeqInt(avg, threshold)

\* "for i_episode in range(1, num_episodes + 1)": the next episode, or the
\* end of the loop and "return scores"
TrainLoop ==
    /\ pc = "t_loop"
    /\ IF i_episode < num_episodes
       THEN /\ i_episode' = i_episode + 1
            /\ pc' = "g_reset"
            /\ optLog' = << >>
            /\ UNCHANGED trainState
       ELSE /\ trainState' = "EXHAUSTED"
            /\ pc' = "done"
            /\ UNCHANGED << i_episode, optLog >>
    /\ UNCHANGED << configVars, raisedBy, step, envVars, policyParams,
                    valueParams, policyGrad, valueGrad, valueCalls, trajVars,
                    derivedVars, trainVars, evalVars >>

\* the last reward in place of the sum
EpisodeScoreLastReward(rs) == IF rs = << >> THEN 0 ELSE rs[Len(rs)]

\* "episode_score = sum(rewards)"
EpisodeScore(rs) == SumInts(rs)

\* lines 261-263
TrainScore ==
    /\ pc = "t_score"
    /\ LET episode_score == EpisodeScore(rewards)
       IN  /\ recent_scores' = DequeAppend(recent_scores, episode_score, WindowCap)
           /\ scores' = Append(scores, episode_score)
    /\ pc' = "t_returns"
    /\ UNCHANGED << configVars, trainState, raisedBy, i_episode, step, envVars,
                    netVars, trajVars, derivedVars, printed, evalVars >>

\* line 265
TrainReturns ==
    /\ pc = "t_returns"
    /\ returns' = calculate_discounted_returns(rewards, max_steps, gamma)
    /\ pc' = "t_standardise"
    /\ UNCHANGED << configVars, trainState, raisedBy, i_episode, step, envVars,
                    netVars, trajVars, standardised_returns, advantages,
                    trainVars, evalVars >>

\* line 266
TrainStandardise ==
    /\ pc = "t_standardise"
    /\ standardised_returns' = standardise_returns(returns)
    /\ pc' = "t_critic"
    /\ UNCHANGED << configVars, trainState, raisedBy, i_episode, step, envVars,
                    netVars, trajVars, returns, advantages, trainVars, evalVars >>

\* lines 271-279
TrainEarlyStop ==
    /\ pc = "t_stop"
    /\ IF /\ early_stopping_threshold.set
          /\ Len(recent_scores) = WindowCap
          /\ Reaches(Mean(recent_scores), early_stopping_threshold.value)
       THEN /\ printed' = printed \o
                    << [kind |-> "triggered", episode |-> i_episode,
                        avg |-> FInt(0), best |-> 0, worst |-> 0],
                       Stats("final", i_episode, recent_scores) >>
            /\ trainState' = "EARLY_STOPPED"
            /\ pc' = "done"
       ELSE /\ pc' = "t_log"
            /\ UNCHANGED << printed, trainState >>
    /\ UNCHANGED << configVars, raisedBy, i_episode, step, envVars, netVars,
                    trajVars, derivedVars, recent_scores, scores, evalVars >>

\* the episodes after the multiples of the interval
LogDueAfter(i, interval) == (i - 1) % interval = 0

\* "if i_episode % log_interval == 0"
LogDue(i, interval) == i % interval = 0

\* lines 281-286
TrainLog ==
    /\ pc = "t_log"
    /\ printed' = IF LogDue(i_episode, log_interval)
                  THEN Append(printed, Stats("periodic", i_episode, recent_scores))
                  ELSE printed
    /\ pc' = "t_loop"
    /\ UNCHANGED << configVars, trainState, raisedBy, i_episode, step, envVars,
                    netVars, trajVars, derivedVars, recent_scores, scores,
                    evalVars >>

----------------------------------------------------------------------------
(* Configurations                                                          *)

Half == Rat(1, 2)

One == FInt(1)

Zero == FInt(0)

Config(n, m, g, l, t) ==
    [num_episodes |-> n, max_steps |-> m, gamma |-> g, log_interval |-> l,
     threshold |-> t]

\* runs shorter than the score window, over every small configuration
ShortConfigs ==
    { Config(n, m, g, 2, t) :
        n \in 0..ShortEpisodes, m \in 1..ShortMaxSteps, g \in { Half, One },
        t \in { NoThreshold, Threshold(4) } }

\* runs longer than the score window
LongConfigs ==
    { Config(LongEpisodes, 2, One, 50, t) : t \in { NoThreshold, Threshold(4) } }

InitCommon ==
    /\ trainState = "RUNNING"
    /\ raisedBy = "none"
    /\ i_episode = 0
    /\ step = -1
    /\ envSwitched = FALSE
    /\ envT = 0
    /\ envDone = FALSE
    /\ envReturn = 0
    /\ envResets = 0
    /\ policyParams = FreshParams
    /\ valueParams = FreshParams
    /\ policyGrad = "none"
    /\ valueGrad = "none"
    /\ optLog = << >>
    /\ valueCalls = 0
    /\ log_probs = << >>
    /\ rewards = << >>
    /\ state_values = << >>
    /\ returns = << >>
    /\ standardised_returns = << >>
    /\ advantages = << >>
    /\ recent_scores = << >>
    /\ scores = << >>
    /\ printed = << >>
    /\ episode_reward = 0
    /\ all_rewards = << >>
    /\ all_steps = << >>

InitConfig(c) ==
    /\ num_episodes = c.num_episodes
    /\ max_steps = c.max_steps
    /\ gamma = c.gamma
    /\ log_interval = c.log_interval
    /\ early_stopping_threshold = c.threshold

----------------------------------------------------------------------------
(* train_agent with an environment that never raises                       *)

InitTrain ==
    /\ \E c \in ShortConfigs \cup LongConfigs : InitConfig(c)
    /\ envMode \in TrainModes
    /\ pc = "t_loop"
    /\ InitCommon

NextTrain ==
    \/ TrainLoop
    \/ GenReset
    \/ GenStep
    \/ GenStepActRaises
    \/ TrainScore
    \/ TrainReturns
    \/ TrainStandardise
    \/ optimise_value_function
    \/ optimise_policy
    \/ TrainEarlyStop
    \/ TrainLog

SpecTrain == InitTrain /\ [][NextTrain]_vars

----------------------------------------------------------------------------
(* calculate_discounted_returns on its own                                 *)

RewardValues == { -1, 1, 2 }

RECURSIVE SeqsUpTo(_, _)
SeqsUpTo(S, n) ==
    IF n = 0 THEN { << >> }
    ELSE LET shorter == SeqsUpTo(S, n - 1)
         IN  shorter \cup { Append(s, x) : s \in { t \in shorter : Len(t) = n - 1 }, x \in S }

InitRet ==
    /\ rewards \in SeqsUpTo(RewardValues, RetMaxLen)
    /\ max_steps \in 1..RetMaxSteps
    /\ gamma \in { Zero, Half, One }
    /\ num_episodes = 0
    /\ log_interval = 1
    /\ early_stopping_threshold = NoThreshold
    /\ envMode = ModeL
    /\ pc = "fn_call"
    /\ trainState = "RUNNING"
    /\ raisedBy = "none"
    /\ i_episode = 0
    /\ step = -1
    /\ envSwitched = FALSE
    /\ envT = 0
    /\ envDone = FALSE
    /\ envReturn = 0
    /\ envResets = 0
    /\ policyParams = FreshParams
    /\ valueParams = FreshParams
    /\ policyGrad = "none"
    /\ valueGrad = "none"
    /\ optLog = << >>
    /\ valueCalls = 0
    /\ log_probs = << >>
    /\ state_values = << >>
    /\ returns = << >>
    /\ standardised_returns = << >>
    /\ advantages = << >>
    /\ recent_scores = << >>
    /\ scores = << >>
    /\ printed = << >>
    /\ episode_reward = 0
    /\ all_rewards = << >>
    /\ all_steps = << >>

\* a call of calculate_discounted_returns(rewards, max_steps, gamma)
CallReturns ==
    /\ pc = "fn_call"
    /\ returns' = calculate_discounted_returns(rewards, max_steps, gamma)
    /\ pc' = "fn_returned"
    /\ UNCHANGED << configVars, trainState, raisedBy, i_episode, step, envVars,
                    netVars, trajVars, standardised_returns, advantages,
                    trainVars, evalVars >>

\* a call of standardise_returns on what calculate_discounted_returns
\* returned
CallStandardise ==
    /\ pc = "fn_returned"
    /\ standardised_returns' = standardise_returns(returns)
    /\ pc' = "fn_standardised"
    /\ UNCHANGED << configVars, trainState, raisedBy, i_episode, step, envVars,
                    netVars, trajVars, returns, advantages, trainVars,
                    evalVars >>

NextRet ==
    \/ CallReturns
    \/ CallStandardise

SpecRet == InitRet /\ [][NextRet]_vars

----------------------------------------------------------------------------
(* train_agent with an environment that may raise                          *)

InitFault ==
    /\ \E c \in ShortConfigs : InitConfig(c)
    /\ envMode \in TrainModes
    /\ pc = "t_loop"
    /\ InitCommon

NextFault ==
    \/ NextTrain
    \/ GenResetEnvRaises
    \/ GenStepEnvRaises

SpecFault == InitFault /\ [][NextFault]_vars

----------------------------------------------------------------------------
(* evaluate                                                                *)

\* the 0-based loop variable in place of the count
StepsTakenIsLoopVariable(s) == s

\* "all_steps.append(step + 1)"
StepsTaken(s) == s + 1

\* "for i_episode in range(1, num_episodes + 1)": the next episode, or lines
\* 448-453 and the return
EvalLoop ==
    /\ pc = "e_loop"
    /\ IF i_episode < num_episodes
       THEN /\ i_episode' = i_episode + 1
            /\ pc' = "e_reset"
            /\ UNCHANGED printed
       ELSE /\ printed' = printed \o
                    << [kind |-> "avg_reward", episode |-> num_episodes,
                        avg |-> Mean(all_rewards), best |-> 0, worst |-> 0],
                       [kind |-> "avg_steps", episode |-> num_episodes,
                        avg |-> Mean(all_steps), best |-> 0, worst |-> 0] >>
            /\ pc' = "done"
            /\ UNCHANGED i_episode
    /\ UNCHANGED << configVars, trainState, raisedBy, step, envVars, netVars,
                    trajVars, derivedVars, recent_scores, scores, evalVars >>

\* lines 434-435; the step loop starts over (max_steps >= 1: its first
\* iteration binds step to 0)
EvalReset ==
    /\ pc = "e_reset"
    /\ EnvReset(EvalModes)
    /\ episode_reward' = 0
    /\ step' = -1
    /\ pc' = "e_step"
    /\ UNCHANGED << configVars, trainState, raisedBy, i_episode, netVars,
                    trajVars, derivedVars, trainVars, all_rewards, all_steps >>

\* one iteration of the step loop in which policy.act raises
EvalStepActRaises ==
    /\ pc = "e_step"
    /\ step + 1 < max_steps
    /\ ActRaises(policyParams)
    /\ step' = step + 1
    /\ RaiseFrom("policy")
    /\ UNCHANGED << configVars, i_episode, envVars, netVars, trajVars,
                    derivedVars, trainVars, evalVars >>

\* one iteration of the step loop, lines 438-443
EvalStep ==
    /\ pc = "e_step"
    /\ step + 1 < max_steps
    /\ ~ActRaises(policyParams)
    /\ step' = step + 1
    /\ EnvStep
    /\ episode_reward' = episode_reward + EnvReward(envMode, envT + 1)
    /\ pc' = IF \/ LoopBreaks(EnvTerminated(envMode, envT + 1),
                              EnvTruncated(envMode, envT + 1))
                \/ step + 2 >= max_steps
             THEN "e_record" ELSE "e_step"
    /\ EvalForward
    /\ UNCHANGED << configVars, trainState, raisedBy, i_episode,
                    trajVars, derivedVars, trainVars, all_rewards, all_steps >>

\* lines 445-446
EvalRecord ==
    /\ pc = "e_record"
    /\ all_rewards' = Append(all_rewards, episode_reward)
    /\ all_steps' = Append(all_steps, StepsTaken(step))
    /\ pc' = "e_loop"
    /\ UNCHANGED << configVars, trainState, raisedBy, i_episode, step, envVars,
                    netVars, trajVars, derivedVars, trainVars, episode_reward >>

\* evaluate(policy, env, num_episodes, max_steps), max_steps >= 1, with a
\* policy whose parameters are finite or (after a training run that produced
\* NaN) NaN
EvalConfigs ==
    { Config(n, m, One, 1, NoThreshold) :
        n \in { 0, 1, 2, EvalEpisodes },
        m \in { 1, 2, EvalMaxSteps, EvalMaxSteps + 5 } }

InitEval ==
    /\ \E c \in EvalConfigs : InitConfig(c)
    /\ envMode \in EvalModes
    /\ pc = "e_loop"
    /\ trainState = "RUNNING"
    /\ raisedBy = "none"
    /\ i_episode = 0
    /\ step = -1
    /\ envSwitched = FALSE
    /\ envT = 0
    /\ envDone = FALSE
    /\ envReturn = 0
    /\ envResets = 0
    /\ policyParams \in { FreshParams, [ver |-> 0, nan |-> TRUE] }
    /\ valueParams = FreshParams
    /\ policyGrad = "none"
    /\ valueGrad = "none"
    /\ optLog = << >>
    /\ valueCalls = 0
    /\ log_probs = << >>
    /\ rewards = << >>
    /\ state_values = << >>
    /\ returns = << >>
    /\ standardised_returns = << >>
    /\ advantages = << >>
    /\ recent_scores = << >>
    /\ scores = << >>
    /\ printed = << >>
    /\ episode_reward = 0
    /\ all_rewards = << >>
    /\ all_steps = << >>

NextEval ==
    \/ EvalLoop
    \/ EvalReset
    \/ EvalStep
    \/ EvalStepActRaises
    \/ EvalRecord

SpecEval == InitEval /\ [][NextEval]_vars

----------------------------------------------------------------------------
(* The rollouts of train_agent and of evaluate                             *)

InitRollouts == InitFault \/ InitEval

NextRollouts ==
    \/ NextTrain
    \/ NextEval

SpecRollouts == InitRollouts /\ [][NextRollouts]_vars

----------------------------------------------------------------------------
(* Claims                                                                  *)

\* the discounted return of 1-based step t of rs, by the defining sum
\* r[t] + g*r[t+1] + g^2*r[t+2] + ...
RECURSIVE DiscountedFrom(_, _, _)
DiscountedFrom(rs, g, t) ==
    IF t > Len(rs) THEN FInt(0)
    ELSE FAdd(FInt(rs[t]), FMul(g, DiscountedFrom(rs, g, t + 1)))

\* the trajectory length the environment's episode asks for: the step that
\* first reports terminated, or max_steps when that comes first
ExpectedLength ==
    IF envMode.len > 0 THEN Min(envMode.len, max_steps) ELSE max_steps

\* the mean of the WindowCap scores ending with episode j
WindowMeanAt(j) == Mean(SubSeq(scores, j - WindowCap + 1, j))

Five(x) == << x, x, x, x, x >>

\* C1: for 1 <= T <= max_steps and gamma in (0,1], the result of
\* calculate_discounted_returns has returns[T-1] = r[T-1] and
\* returns[t] = r[t] + gamma * returns[t+1] for t < T-1; rewards [1,1,1,1,1]
\* with gamma = 1 give [5,4,3,2,1].
C1_ReturnsRecursion ==
    ( /\ pc = "fn_returned"
      /\ 1 <= Len(rewards)
      /\ Len(rewards) <= max_steps
      /\ gamma.n > 0
      /\ gamma.n <= gamma.d )
    => LET T == Len(rewards)
       IN  /\ Len(returns) = T
           /\ returns[T] = FInt(rewards[T])
           /\ \A t \in 1..(T - 1) :
                  returns[t] = FAdd(FInt(rewards[t]), FMul(gamma, returns[t + 1]))
           /\ (rewards = Five(1) /\ gamma = One)
                  => returns = << FInt(5), FInt(4), FInt(3), FInt(2), FInt(1) >>

C1_Witness ==
    /\ pc = "fn_returned"
    /\ rewards = << 2, -1, 1 >>
    /\ max_steps = 4
    /\ gamma = Half
    /\ returns = << Rat(7, 4), Rat(-1, 2), FInt(1) >>

\* C2: with a threshold configured, training ends EARLY_STOPPED at the first
\* episode i >= 100 whose 100 most recent scores have a mean >= threshold
\* (equality counts), never before the window holds 100 entries, and the
\* score history then has length i.
C2_EarlyStopAtFirstReach ==
    /\ trainState = "EARLY_STOPPED"
         => /\ pc = "done"
            /\ early_stopping_threshold.set
            /\ i_episode >= WindowCap
            /\ Len(scores) = i_episode
            /\ FGeqInt(WindowMeanAt(i_episode), early_stopping_threshold.value)
    /\ (pc = "t_log" /\ early_stopping_threshold.set /\ Len(scores) >= WindowCap)
         => ~FGeqInt(WindowMeanAt(Len(scores)), early_stopping_threshold.value)
    /\ (pc = "done" /\ early_stopping_threshold.set)
         => \A j \in WindowCap..Len(scores) :
                FGeqInt(WindowMeanAt(j), early_stopping_threshold.value)
                    => (j = Len(scores) /\ trainState = "EARLY_STOPPED")

C2_Witness ==
    /\ trainState = "EARLY_STOPPED"
    /\ early_stopping_threshold = Threshold(4)
    /\ i_episode = 150
    /\ Len(scores) = 150
    /\ WindowMeanAt(150) = FInt(4)
    /\ scores[1] = 3

\* C3: generate_trajectory stops at the first step that reports terminated,
\* or after max_steps steps: the trajectory length is min(first terminated
\* step, max_steps), the three returned sequences have that length, and
\* termination on the first step gives length 1.
C3_TrajectoryLength ==
    /\ pc = "g_step"
         => /\ ~envDone
            /\ envT < max_steps
            /\ Len(rewards) = envT
    /\ pc = "t_score"
         => /\ Len(rewards) = envT
            /\ Len(log_probs) = envT
            /\ Len(state_values) = envT
            /\ envT = ExpectedLength
            /\ envMode.len = 1 => Len(rewards) = 1

C3_Witness ==
    /\ pc = "t_score"
    /\ max_steps = 3
    /\ envMode = ModeO
    /\ envDone
    /\ Len(rewards) = 1
    /\ Len(log_probs) = 1
    /\ Len(state_values) = 1

\* C4: for every trajectory length T with 1 <= T <= max_steps, T = 1
\* included, standardise_returns produces T finite values and the critic and
\* actor updates are computed from finite losses.
C4_PipelineFinite ==
    ( /\ pc \in { "t_critic", "t_actor", "t_stop" }
      /\ 1 <= Len(rewards)
      /\ Len(rewards) <= max_steps )
    => /\ Len(standardised_returns) = Len(rewards)
       /\ \A i \in 1..Len(standardised_returns) :
              StdIsFinite(standardised_returns[i])
       /\ pc \in { "t_actor", "t_stop" } => valueGrad = "finite"
       /\ pc = "t_stop" => policyGrad = "finite"

\* C5: after n episodes the rolling window holds the most recent min(n, 100)
\* scores in arrival order, the last min(n, 100) entries of the score
\* history.
C5_WindowIsRecentScores ==
    LET n == Len(scores)
        k == Min(n, WindowCap)
    IN  /\ Len(recent_scores) = k
        /\ recent_scores = SubSeq(scores, n - k + 1, n)
        /\ pc = "t_stop" => Mean(recent_scores) = Mean(SubSeq(scores, n - k + 1, n))

C5_Witness ==
    /\ Len(scores) = 150
    /\ recent_scores = SubSeq(scores, 51, 150)
    /\ scores[1] # scores[150]
    /\ scores[50] # scores[51]

\* C6: the score history has one entry per episode run, in episode order,
\* entry k being the sum of the rewards of episode k, in both terminal
\* states.
C6_ScoreHistory ==
    /\ [](( pc = "done" /\ trainState \in { "EARLY_STOPPED", "EXHAUSTED" } )
            => ( Len(scores) = envResets /\ Len(scores) = i_episode ))
    /\ [][ scores' # scores
             => ( /\ scores' = Append(scores, envReturn)
                  /\ Len(scores') = envResets ) ]_vars

C6_Witness ==
    /\ pc = "done"
    /\ trainState = "EARLY_STOPPED"
    /\ Len(scores) = envResets
    /\ Len(scores) > WindowCap
    /\ scores[1] # scores[Len(scores)]

\* C7: train_agent always ends in EARLY_STOPPED or EXHAUSTED; without a
\* threshold, or when the full-window mean never reaches it, it runs exactly
\* num_episodes episodes and ends EXHAUSTED, each episode taking at most
\* max_steps environment steps.
C7_EndsStoppedOrExhausted ==
    /\ envT <= max_steps
    /\ pc = "done"
         => /\ trainState \in { "EARLY_STOPPED", "EXHAUSTED" }
            /\ trainState = "EXHAUSTED"
                 => ( i_episode = num_episodes /\ Len(scores) = num_episodes )

\* C8: calculate_discounted_returns returns exactly len(rewards) entries for
\* every reward sequence and every max_steps.
C8_SameLength ==
    pc = "fn_returned" => Len(returns) = Len(rewards)

\* C8, amended: calculate_discounted_returns returns min(len(rewards),
\* max_steps) entries, the discounted returns of the first steps in temporal
\* order: len(rewards) entries when len(rewards) <= max_steps.
C8_LengthCappedByMaxSteps ==
    pc = "fn_returned"
    => /\ Len(returns) = Min(Len(rewards), max_steps)
       /\ Len(rewards) <= max_steps => Len(returns) = Len(rewards)
       /\ \A t \in 1..Len(returns) : returns[t] = DiscountedFrom(rewards, gamma, t)

C8_Witness ==
    /\ pc = "fn_returned"
    /\ Len(rewards) = 4
    /\ max_steps = 2
    /\ Len(returns) = 2
    /\ returns[2] = DiscountedFrom(rewards, gamma, 2)
    /\ returns[2] # FInt(rewards[2])

\* C9: when the environment raises in reset or step during episode k, the
\* error reaches the caller with no retry and no optimizer step of episode k
\* is executed: both parameter sets are those left by episode k-1.
C9_EnvErrorPropagates ==
    raisedBy = "env"
    => /\ pc = "done"
       /\ trainState = "RAISED"
       /\ ~ENABLED NextFault
       /\ envResets <= i_episode
       /\ optLog = << >>
       /\ policyParams.ver = i_episode - 1
       /\ valueParams.ver = i_episode - 1
       /\ Len(scores) = i_episode - 1

C9_Witness ==
    /\ raisedBy = "env"
    /\ pc = "done"
    /\ i_episode = 2
    /\ envT = 1
    /\ policyParams.ver = 1
    /\ valueParams.ver = 1

\* C10: evaluate with max_steps >= 1 returns two sequences of length
\* num_episodes, all_rewards[i] the sum of the rewards of episode i and
\* all_steps[i] the steps taken in it, min(first terminated step, max_steps);
\* ten episodes of reward 100 and length 50 give [100]*10 and [50]*10.
C10_EvaluateResult ==
    /\ [](( pc = "done" /\ raisedBy = "none" )
            => /\ Len(all_rewards) = num_episodes
               /\ Len(all_steps) = num_episodes
               /\ ( /\ num_episodes = 10
                    /\ envMode = ModeE
                    /\ ~envSwitched
                    /\ max_steps >= 50 )
                    => /\ all_rewards = [i \in 1..10 |-> 100]
                       /\ all_steps = [i \in 1..10 |-> 50])
    /\ [][ ( all_rewards' # all_rewards \/ all_steps' # all_steps )
             => /\ all_rewards' = Append(all_rewards, envReturn)
                /\ all_steps' = Append(all_steps, envT)
                /\ envT = ExpectedLength
                /\ Len(all_rewards') = envResets ]_vars

C10_Witness ==
    /\ pc = "done"
    /\ raisedBy = "none"
    /\ max_steps = 50
    /\ all_rewards = [i \in 1..10 |-> 100]
    /\ all_steps = [i \in 1..10 |-> 50]
    /\ printed[1].avg = FInt(100)
    /\ printed[2].avg = FInt(50)

\* C11: evaluate updates nothing: no step of it changes the policy's or the
\* value network's parameters or gradient buffers, no optimizer call
\* (zero_grad, backward, step) is made, the value network is never run, and
\* the configuration, the trajectory buffers and the training scores stay as
\* they are; what changes is the environment and evaluate's own results.
C11_EvaluateUpdatesNothing ==
    /\ [](optLog = << >> /\ valueCalls = 0)
    /\ [][ /\ policyParams' = policyParams
           /\ valueParams' = valueParams
           /\ policyGrad' = policyGrad
           /\ valueGrad' = valueGrad
           /\ optLog' = optLog
           /\ valueCalls' = valueCalls
           /\ UNCHANGED << configVars, trajVars, derivedVars, recent_scores,
                           scores >> ]_vars

C11_Witness ==
    /\ pc = "done"
    /\ raisedBy = "none"
    /\ num_episodes = 10
    /\ Len(all_rewards) = 10
    /\ envT = 50
    /\ policyParams = FreshParams
    /\ valueParams = FreshParams
    /\ valueCalls = 0
    /\ optLog = << >>

\* C12: with gamma = 0 and a reward sequence no longer than max_steps,
\* calculate_discounted_returns returns the rewards themselves: as many
\* entries, returns[t] = rewards[t] for every t.
C12_GammaZeroReturnsRewards ==
    ( pc = "fn_returned" /\ gamma = Zero /\ Len(rewards) <= max_steps )
        => /\ Len(returns) = Len(rewards)
           /\ \A t \in 1..Len(rewards) : returns[t] = FInt(rewards[t])

C12_Witness ==
    /\ pc = "fn_returned"
    /\ gamma = Zero
    /\ max_steps = 5
    /\ rewards = << 2, -1, 1, 2, 1 >>
    /\ returns = << FInt(2), FInt(-1), FInt(1), FInt(2), FInt(1) >>

\* C14: for a constant sequence of returns of length >= 2,
\* standardise_returns divides by 0 + eps > 0: the output has as many
\* entries, each of them finite (neither NaN nor Inf) and equal to 0.
C14_ConstantReturnsStandardiseToZero ==
    ( /\ pc = "fn_standardised"
      /\ Len(returns) >= 2
      /\ \A t \in 1..Len(returns) : returns[t] = returns[1] )
        => /\ Len(standardised_returns) = Len(returns)
           /\ \A t \in 1..Len(returns) :
                /\ StdIsFinite(standardised_returns[t])
                /\ StdIsZero(standardised_returns[t])
                /\ standardised_returns[t].var = FInt(0)
                /\ standardised_returns[t].eps.n > 0

C14_Witness ==
    /\ pc = "fn_standardised"
    /\ gamma = Zero
    /\ returns = Five(FInt(2))
    /\ Len(standardised_returns) = 5
    /\ \A t \in 1..5 : standardised_returns[t] = StdElem(FInt(0), FInt(0))

\* C15: in every training episode the critic is stepped before the actor:
\* when optimise_policy starts, the value optimizer has stepped and the
\* policy optimizer has not; both losses are computed from the same
\* standardised returns; and the advantages are standardised_returns[t]
\* minus the value estimates recorded during the rollout, which were
\* computed with the critic as it was before this episode's update.
C15_CriticThenActorOnRolloutValues ==
    /\ pc = "t_actor"
         => /\ optLog = OptEvents("value", ValueUpdateEvents)
            /\ valueParams.ver = i_episode
            /\ policyParams.ver = i_episode - 1
            /\ (valueGrad = "nan")
                 <=> ValueLossIsNaN(state_values, standardised_returns)
    /\ pc = "t_stop"
         => /\ optLog = OptEvents("value", ValueUpdateEvents)
                           \o OptEvents("policy", PolicyUpdateEvents)
            /\ valueParams.ver = i_episode
            /\ policyParams.ver = i_episode
            /\ Len(advantages) = Len(rewards)
            /\ Len(standardised_returns) = Len(rewards)
            /\ \A t \in 1..Len(advantages) :
                 /\ advantages[t].ret = standardised_returns[t]
                 /\ advantages[t].value = state_values[t]
                 /\ advantages[t].value.t = t - 1
                 /\ advantages[t].value.ver = i_episode - 1
            /\ (policyGrad = "nan") <=> PolicyLossIsNaN(log_probs, advantages)

C15_Witness ==
    /\ pc = "t_stop"
    /\ i_episode = 2
    /\ valueParams = [ver |-> 2, nan |-> FALSE]
    /\ policyParams = [ver |-> 2, nan |-> FALSE]
    /\ Len(advantages) = 2
    /\ advantages[2].value = [ver |-> 1, t |-> 1, nan |-> FALSE]
    /\ advantages[2].ret = standardised_returns[2]

\* C16: the two updates do not touch each other's network: the step that is
\* optimise_value_function leaves the actor's parameters and the actor's
\* gradient buffer as they are, and the step that is optimise_policy leaves
\* the critic's parameters (and, the advantages being detached, the critic's
\* gradient buffer) as they are.
C16_NoCrossTalk ==
    [][ /\ pc = "t_critic"
             => /\ policyParams' = policyParams
                /\ policyGrad' = policyGrad
                /\ valueParams'.ver = valueParams.ver + 1
        /\ pc = "t_actor"
             => /\ valueParams' = valueParams
                /\ valueGrad' = valueGrad
                /\ policyParams'.ver = policyParams.ver + 1 ]_vars

C16_Witness ==
    /\ pc = "t_stop"
    /\ i_episode = 2
    /\ policyGrad = "finite"
    /\ valueGrad = "finite"
    /\ policyParams = [ver |-> 2, nan |-> FALSE]
    /\ valueParams = [ver |-> 2, nan |-> FALSE]
    /\ Len(optLog) = 6

\* the window of scores as it is at the end of episode i
WindowAt(i) ==
    SubSeq(scores, IF i > WindowCap THEN i - WindowCap + 1 ELSE 1, i)

Printed(line) == \E k \in 1..Len(printed) : printed[k] = line

\* the episodes run to their end whose number log_interval divides: all of
\* them when train_agent has ended, the one just ended at the loop head
LoggedEpisodes ==
    IF pc = "done"
    THEN { i \in 1..Len(scores) : i % log_interval = 0 }
    ELSE IF pc = "t_loop"
    THEN { i \in { Len(scores) } : i > 0 /\ i % log_interval = 0 }
    ELSE { }

\* C17 as claimed: at the end of every episode i that log_interval divides,
\* the periodic log line (mean, max, min of the window at that episode) has
\* been printed, also when episode i is the one at which early stopping
\* triggers.
C17_PeriodicLogAlways ==
    \A i \in LoggedEpisodes : Printed(Stats("periodic", i, WindowAt(i)))

\* C17, amended: at the end of every episode i that log_interval divides and
\* at which early stopping does not trigger, the periodic log line (mean,
\* max, min of the window at that episode, which may hold fewer than 100
\* scores) has been printed; at the episode at which early stopping triggers
\* the final line with the same statistics has been printed and no periodic
\* line for that episode.
C17_PeriodicLogUnlessStopped ==
    \A i \in LoggedEpisodes :
        IF trainState = "EARLY_STOPPED" /\ i = i_episode
        THEN /\ Printed(Stats("final", i, WindowAt(i)))
             /\ \A k \in 1..Len(printed) :
                    ~(printed[k].kind = "periodic" /\ printed[k].episode = i)
        ELSE Printed(Stats("periodic", i, WindowAt(i)))

C17_Witness ==
    /\ pc = "done"
    /\ trainState = "EARLY_STOPPED"
    /\ log_interval = 50
    /\ i_episode = 100
    /\ Len(scores) = 100
    /\ Printed(Stats("periodic", 50, WindowAt(50)))
    /\ Len(WindowAt(50)) = 50
    /\ Printed(Stats("final", 100, WindowAt(100)))
    /\ ~Printed(Stats("periodic", 100, WindowAt(100)))

\* C18: in each training episode each optimizer runs exactly one cycle, in
\* the order clear gradients, backward pass, step: once both updates are
\* done the episode's optimizer calls are value zero_grad, backward, step
\* followed by policy zero_grad, backward, step, both gradient buffers hold
\* this episode's gradient, and each network has been stepped once per
\* episode run to its end.
C18_OneOptimizerCyclePerEpisode ==
    /\ pc \in { "t_stop", "t_log" }
         => /\ optLog = << [opt |-> "value", op |-> "zero_grad"],
                           [opt |-> "value", op |-> "backward"],
                           [opt |-> "value", op |-> "step"],
                           [opt |-> "policy", op |-> "zero_grad"],
                           [opt |-> "policy", op |-> "backward"],
                           [opt |-> "policy", op |-> "step"] >>
            /\ valueGrad # "none"
            /\ policyGrad # "none"
            /\ valueParams.ver = i_episode
            /\ policyParams.ver = i_episode
    /\ pc \in { "g_reset", "g_step", "t_score", "t_returns", "t_standardise",
                "t_critic" }
         => /\ optLog = << >>
            /\ valueParams.ver = i_episode - 1
            /\ policyParams.ver = i_episode - 1
    /\ pc \in { "t_loop", "done" }
         => /\ valueParams.ver = Len(scores)
            /\ policyParams.ver = Len(scores)

C18_Witness ==
    /\ pc = "t_log"
    /\ i_episode = 3
    /\ Len(optLog) = 6
    /\ optLog[3] = [opt |-> "value", op |-> "step"]
    /\ optLog[6] = [opt |-> "policy", op |-> "step"]
    /\ valueParams = [ver |-> 3, nan |-> FALSE]
    /\ policyParams = [ver |-> 3, nan |-> FALSE]

\* C19: in generate_trajectory and in evaluate every episode begins with
\* exactly one env.reset(), made before the episode's first env.step(); no
\* env.step() is made after a step reported terminated until the next
\* reset; and between an episode's reset and the end of its rollout no
\* optimizer call is made and no parameter changes.
C19_EnvProtocol ==
    /\ [](pc \in { "g_step", "e_step", "t_score", "e_record" }
            => envResets = i_episode)
    /\ [](pc \in { "g_reset", "g_step", "t_score", "e_reset", "e_step",
                   "e_record" } => optLog = << >>)
    /\ [][ /\ envT' = envT + 1
               => /\ ~envDone
                  /\ envResets = i_episode
                  /\ envResets' = envResets
                  /\ pc \in { "g_step", "e_step" }
           /\ envResets' # envResets
               => /\ envResets' = envResets + 1
                  /\ envResets' = i_episode
                  /\ pc \in { "g_reset", "e_reset" }
                  /\ envT' = 0
                  /\ ~envDone'
           /\ pc \in { "g_reset", "g_step", "e_reset", "e_step" }
               => /\ policyParams' = policyParams
                  /\ valueParams' = valueParams
                  /\ optLog' = optLog ]_vars

C19_Witness ==
    /\ pc = "t_score"
    /\ max_steps = 3
    /\ i_episode = 2
    /\ envResets = 2
    /\ envT = 2
    /\ envDone
    /\ step = 1
    /\ optLog = << >>
    /\ policyParams.ver = 1

=============================================================================
